---- MODULE Spec2Model ----
(***************************************************************************)
(* A model of workers/workers.go: a pool of `count` worker goroutines, one *)
(* scheduler goroutine (processQueue) that drains one Job at a time, the   *)
(* caller-side Job API (NewJob, Go, Done, Wait) and Stop.                  *)
(*                                                                         *)
(* Channels are modelled by what they hold: a buffered channel is a        *)
(* sequence bounded by its capacity, an unbuffered channel is a rendezvous *)
(* (one action moves both the sender and the receiver), and a channel used *)
(* only by being closed is a boolean.  Each goroutine has a position (pc). *)
(* Statements executed under w.lock, or that touch nothing another         *)
(* goroutine can see, are grouped into one step.                           *)
(***************************************************************************)
EXTENDS Integers, Sequences, FiniteSets, TLC

\* ---------------------------------------------------------------- bounds
\* The largest `workers` argument given to New; Init draws count from 1..MaxWorkers.
MaxWorkers == 2
\* The largest `maxJobs` argument given to New (capacity of w.queue); Init draws
\* maxJobs from 1..MaxJobs.
MaxJobs == 2
\* The number of NewJob calls the callers make.
NumJobs == 2
\* The largest number of Go calls on one Job.
MaxTasks == 3
\* The `taskBacklog` argument given to NewJob (capacity of j.tasks).
TaskBacklog == 1

Jobs == 1..NumJobs
WorkerIds == 1..MaxWorkers
TaskIds == 1..MaxTasks

\* ---------------------------------------------------------- error values
\* An error value is a triple, so that any two of them can be compared.
Nil == <<"nil", 0, 0>>
ErrShutdown == <<"ErrShutdown", 0, 0>>
\* The error returned by the t-th task closure pushed into job j.
TaskErr(j, t) == <<"task", j, t>>
IsTaskErr(e) == e[1] = "task"

VARIABLES
    count,              \* Workers.count
    maxJobs,            \* the capacity of Workers.queue
    queue,              \* Workers.queue: the buffered jobs, oldest first
    queueClosed,        \* whether Workers.queue is closed
    shouldShutdown,     \* Workers.shouldShutdown
    triggeredShutdown,  \* Workers.triggeredShutdown
    err,                \* Workers.err
    sg,                 \* Workers.sg: the WaitGroup's counter
    ackShutdown,        \* whether Workers.ackShutdown is closed
    stopWorkers,        \* whether Workers.stopWorkers is closed
    sched,              \* the processQueue goroutine: [pc, job, task]
    worker,             \* the startWorker goroutines: w -> [pc, job, task]
    stop,               \* the Stop call: [pc, i]
    jobs,               \* j -> the NewJob call's position and the Job's channels
    waited,             \* j -> what Wait returned, <<>> while it has not
    fault,              \* a goroutine panicked (send on a closed channel)
    \* What has happened so far (read by the properties only).
    ran,                \* j -> t -> how many times task t of job j was executed
    skipped,            \* j -> t -> how many times a worker skipped it
    outcomes,           \* j -> every value sent on j.result, in order
    atStop,             \* the jobs resident in w.queue when Stop set the flag
    drainAtStop,        \* the job in drain when Stop set the flag (0: none)
    enqueued,           \* the jobs in the order NewJob sent them on w.queue
    dequeued,           \* the jobs in the order the scheduler received them
    invoked             \* j -> how many times the callback given to Done was called

poolVars == <<count, maxJobs, queue, queueClosed, shouldShutdown, triggeredShutdown, err, sg,
              ackShutdown, stopWorkers>>
procVars == <<sched, worker, stop>>
jobVars == <<jobs, waited, fault>>
logVars == <<enqueued, dequeued, invoked>>
histVars == <<ran, skipped, outcomes, atStop, drainAtStop, logVars>>
vars == <<poolVars, procVars, jobVars, histVars>>

Idle == [pc |-> "select", job |-> 0, task |-> 0]

\* A Job before its NewJob call: no channel exists yet.
NoJob == [call |-> "none", tasks |-> <<>>, taken |-> 0, closed |-> FALSE,
          completed |-> FALSE, result |-> <<>>, callback |-> "none"]

\* Init with the loop of lines 49-51 run once too often: one worker more than count.
Init_oneMoreWorker ==
    /\ count \in 1..MaxWorkers
    /\ maxJobs \in 1..MaxJobs
    /\ queue = <<>>
    /\ queueClosed = FALSE
    /\ shouldShutdown = FALSE
    /\ triggeredShutdown = FALSE
    /\ err = Nil
    /\ sg = 0
    /\ ackShutdown = FALSE
    /\ stopWorkers = FALSE
    /\ sched = [pc |-> "recv", job |-> 0, task |-> 0]
    /\ worker = [w \in WorkerIds |-> IF w <= count + 1 THEN Idle
                                     ELSE [Idle EXCEPT !.pc = "absent"]]
    /\ stop = [pc |-> "idle", i |-> 0]
    /\ jobs = [j \in Jobs |-> NoJob]
    /\ waited = [j \in Jobs |-> <<>>]
    /\ fault = FALSE
    /\ ran = [j \in Jobs |-> [t \in TaskIds |-> 0]]
    /\ skipped = [j \in Jobs |-> [t \in TaskIds |-> 0]]
    /\ outcomes = [j \in Jobs |-> <<>>]
    /\ atStop = {}
    /\ drainAtStop = 0
    /\ enqueued = <<>>
    /\ dequeued = <<>>
    /\ invoked = [j \in Jobs |-> 0]

\* New: the struct literal, processQueue() and count startWorker() calls.
Init ==
    /\ count \in 1..MaxWorkers
    /\ maxJobs \in 1..MaxJobs
    /\ queue = <<>>
    /\ queueClosed = FALSE
    /\ shouldShutdown = FALSE
    /\ triggeredShutdown = FALSE
    /\ err = Nil
    /\ sg = 0
    /\ ackShutdown = FALSE
    /\ stopWorkers = FALSE
    /\ sched = [pc |-> "recv", job |-> 0, task |-> 0]
    /\ worker = [w \in WorkerIds |-> IF w <= count THEN Idle
                                     ELSE [Idle EXCEPT !.pc = "absent"]]
    /\ stop = [pc |-> "idle", i |-> 0]
    /\ jobs = [j \in Jobs |-> NoJob]
    /\ waited = [j \in Jobs |-> <<>>]
    /\ fault = FALSE
    /\ ran = [j \in Jobs |-> [t \in TaskIds |-> 0]]
    /\ skipped = [j \in Jobs |-> [t \in TaskIds |-> 0]]
    /\ outcomes = [j \in Jobs |-> <<>>]
    /\ atStop = {}
    /\ drainAtStop = 0
    /\ enqueued = <<>>
    /\ dequeued = <<>>
    /\ invoked = [j \in Jobs |-> 0]

\* ------------------------------------------------------------ the callers
\* NewJob_check without the read of shouldShutdown: every call goes on to enqueue.
NewJob_check_noFlag(j) ==
    /\ ~fault
    /\ jobs[j].call = "none"
    /\ IF j = 1 THEN TRUE ELSE jobs[j - 1].call # "none"
    /\ jobs' = [jobs EXCEPT ![j].call = "checked"]
    /\ UNCHANGED <<poolVars, procVars, waited, fault, histVars>>

\* NewJob, lines 167-172: read shouldShutdown under the lock; fail fast when set.
\* The callers make their NewJob calls in the order of the job numbers, but a
\* call may start before the previous one has returned.
NewJob_check(j) ==
    /\ ~fault
    /\ jobs[j].call = "none"
    /\ IF j = 1 THEN TRUE ELSE jobs[j - 1].call # "none"
    /\ jobs' = [jobs EXCEPT ![j].call = IF shouldShutdown THEN "rejected" ELSE "checked"]
    /\ UNCHANGED <<poolVars, procVars, waited, fault, histVars>>

\* NewJob, lines 173-179: make the Job and send it on w.queue.  The send blocks
\* while the queue is full and panics once the queue is closed.
NewJob_send(j) ==
    /\ ~fault
    /\ jobs[j].call = "checked"
    /\ IF queueClosed
       THEN /\ fault' = TRUE
            /\ jobs' = [jobs EXCEPT ![j].call = "panicked"]
            /\ UNCHANGED <<queue, enqueued>>
       ELSE /\ Len(queue) < maxJobs
            /\ queue' = Append(queue, j)
            /\ enqueued' = Append(enqueued, j)
            /\ jobs' = [jobs EXCEPT ![j].call = "returned"]
            /\ UNCHANGED fault
    /\ UNCHANGED <<count, maxJobs, queueClosed, shouldShutdown, triggeredShutdown, err,
                   sg, ackShutdown, stopWorkers, procVars, waited, ran, skipped,
                   outcomes, atStop, drainAtStop, dequeued, invoked>>

\* The number of task closures buffered in j.tasks.
Buffered(j) == Len(jobs[j].tasks) - jobs[j].taken

\* Go without the wait for room in j.tasks: the send never blocks.
Go_noBacklog(j, f) ==
    /\ ~fault
    /\ jobs[j].call = "returned"
    /\ ~jobs[j].closed
    /\ Len(jobs[j].tasks) < MaxTasks
    /\ jobs' = [jobs EXCEPT ![j].tasks = Append(@, f)]
    /\ UNCHANGED <<poolVars, procVars, waited, fault, histVars>>

\* Job.Go, lines 145-147: send the closure f on j.tasks; the send blocks while the
\* backlog is full.  A closure is modelled by whether it returns an error.
\* The caller pushes before Done only (a send after close panics).
Go(j, f) ==
    /\ ~fault
    /\ jobs[j].call = "returned"
    /\ ~jobs[j].closed
    /\ Len(jobs[j].tasks) < MaxTasks
    /\ Buffered(j) < TaskBacklog
    /\ jobs' = [jobs EXCEPT ![j].tasks = Append(@, f)]
    /\ UNCHANGED <<poolVars, procVars, waited, fault, histVars>>

\* Job.Done, lines 149-157: close j.tasks; when a callback is given (f), start the
\* goroutine that waits for j.completed.
Done(j, f) ==
    /\ ~fault
    /\ jobs[j].call = "returned"
    /\ ~jobs[j].closed
    /\ jobs' = [jobs EXCEPT ![j].closed = TRUE,
                            ![j].callback = IF f THEN "waiting" ELSE "none"]
    /\ UNCHANGED <<poolVars, procVars, waited, fault, histVars>>

\* Done_callback without the receive from j.completed.
Done_callback_noWait(j) ==
    /\ ~fault
    /\ jobs[j].callback = "waiting"
    /\ jobs' = [jobs EXCEPT ![j].callback = "called"]
    /\ invoked' = [invoked EXCEPT ![j] = @ + 1]
    /\ UNCHANGED <<poolVars, procVars, waited, fault, ran, skipped, outcomes, atStop,
                   drainAtStop, enqueued, dequeued>>

\* Lines 154-155, the goroutine started by Done: `<-j.completed` returns once the
\* channel is closed, then f() is called and the goroutine ends.
Done_callback(j) ==
    /\ ~fault
    /\ jobs[j].callback = "waiting"
    /\ jobs[j].completed
    /\ jobs' = [jobs EXCEPT ![j].callback = "called"]
    /\ invoked' = [invoked EXCEPT ![j] = @ + 1]
    /\ UNCHANGED <<poolVars, procVars, waited, fault, ran, skipped, outcomes, atStop, drainAtStop,
                   enqueued, dequeued>>

\* Job.Wait, lines 160-162: receive from j.result (at most one Wait per Job).
Wait(j) ==
    /\ ~fault
    /\ jobs[j].call = "returned"
    /\ waited[j] = <<>>
    /\ jobs[j].result # <<>>
    /\ waited' = [waited EXCEPT ![j] = <<Head(jobs[j].result)>>]
    /\ jobs' = [jobs EXCEPT ![j].result = Tail(@)]
    /\ UNCHANGED <<poolVars, procVars, fault, histVars>>

\* ---------------------------------------------------------- processQueue
\* A send on j.result (a channel of capacity 1): blocks while it is full.
SendResult(j, e) ==
    /\ Len(jobs[j].result) < 1
    /\ jobs' = [jobs EXCEPT ![j].result = Append(@, e)]
    /\ outcomes' = [outcomes EXCEPT ![j] = Append(@, e)]

\* processQueue_recv taking the newest job of the queue instead of the oldest.
processQueue_recv_newest ==
    /\ ~fault
    /\ sched.pc = "recv"
    /\ IF queue # <<>>
       THEN /\ sched' = [pc |-> "check", job |-> queue[Len(queue)], task |-> 0]
            /\ queue' = SubSeq(queue, 1, Len(queue) - 1)
            /\ dequeued' = Append(dequeued, queue[Len(queue)])
       ELSE /\ queueClosed
            /\ sched' = [pc |-> "ack", job |-> 0, task |-> 0]
            /\ UNCHANGED <<queue, dequeued>>
    /\ UNCHANGED <<count, maxJobs, queueClosed, shouldShutdown, triggeredShutdown, err,
                   sg, ackShutdown, stopWorkers, worker, stop, jobVars, ran, skipped,
                   outcomes, atStop, drainAtStop, enqueued, invoked>>

\* Line 57, `for j := range w.queue`: take the oldest job; leave the loop when the
\* queue is closed and empty.
processQueue_recv ==
    /\ ~fault
    /\ sched.pc = "recv"
    /\ IF queue # <<>>
       THEN /\ sched' = [pc |-> "check", job |-> Head(queue), task |-> 0]
            /\ queue' = Tail(queue)
            /\ dequeued' = Append(dequeued, Head(queue))
       ELSE /\ queueClosed
            /\ sched' = [pc |-> "ack", job |-> 0, task |-> 0]
            /\ UNCHANGED <<queue, dequeued>>
    /\ UNCHANGED <<count, maxJobs, queueClosed, shouldShutdown, triggeredShutdown, err,
                   sg, ackShutdown, stopWorkers, worker, stop, jobVars, ran, skipped,
                   outcomes, atStop, drainAtStop, enqueued, invoked>>

\* processQueue_check without the shutdown test: every dequeued job is drained.
processQueue_check_noFlag ==
    /\ ~fault
    /\ sched.pc = "check"
    /\ sched' = [sched EXCEPT !.pc = "drain"]
    /\ UNCHANGED <<poolVars, worker, stop, jobVars, histVars>>

\* Lines 59-65: read shouldShutdown under the lock; when set, send ErrShutdown on
\* j.result and continue with the next job.
processQueue_check ==
    /\ ~fault
    /\ sched.pc = "check"
    /\ IF shouldShutdown
       THEN /\ SendResult(sched.job, ErrShutdown)
            /\ sched' = [pc |-> "recv", job |-> 0, task |-> 0]
       ELSE /\ sched' = [sched EXCEPT !.pc = "drain"]
            /\ UNCHANGED <<jobs, outcomes>>
    /\ UNCHANGED <<poolVars, worker, stop, waited, fault, ran, skipped, atStop, drainAtStop,
                   logVars>>

\* processQueue_take leaving the loop on an empty j.tasks that is not yet closed.
processQueue_take_noClose ==
    /\ ~fault
    /\ sched.pc = "drain"
    /\ IF Buffered(sched.job) > 0
       THEN /\ jobs' = [jobs EXCEPT ![sched.job].taken = @ + 1]
            /\ sg' = sg + 1
            /\ sched' = [sched EXCEPT !.pc = "send", !.task = jobs[sched.job].taken + 1]
       ELSE /\ sched' = [sched EXCEPT !.pc = "wait", !.task = 0]
            /\ UNCHANGED <<jobs, sg>>
    /\ UNCHANGED <<count, maxJobs, queue, queueClosed, shouldShutdown, triggeredShutdown, err,
                   ackShutdown, stopWorkers, worker, stop, waited, fault, histVars>>

\* Lines 68-69, `for t := range j.tasks` and w.sg.Add(1): take the oldest buffered
\* closure and count it; leave the loop when j.tasks is closed and empty.
processQueue_take ==
    /\ ~fault
    /\ sched.pc = "drain"
    /\ IF Buffered(sched.job) > 0
       THEN /\ jobs' = [jobs EXCEPT ![sched.job].taken = @ + 1]
            /\ sg' = sg + 1
            /\ sched' = [sched EXCEPT !.pc = "send", !.task = jobs[sched.job].taken + 1]
       ELSE /\ jobs[sched.job].closed
            /\ sched' = [sched EXCEPT !.pc = "wait", !.task = 0]
            /\ UNCHANGED <<jobs, sg>>
    /\ UNCHANGED <<count, maxJobs, queue, queueClosed, shouldShutdown, triggeredShutdown, err,
                   ackShutdown, stopWorkers, worker, stop, waited, fault, histVars>>

\* Line 70 with line 99: `w.tasks <- t` meets worker w's `j := <-w.tasks`
\* (w.tasks is unbuffered, so the send and the receive are one step).
processQueue_send(w) ==
    /\ ~fault
    /\ sched.pc = "send"
    /\ worker[w].pc = "select"
    /\ worker' = [worker EXCEPT ![w] = [pc |-> "check", job |-> sched.job,
                                        task |-> sched.task]]
    /\ sched' = [sched EXCEPT !.pc = "drain", !.task = 0]
    /\ UNCHANGED <<poolVars, stop, jobVars, histVars>>

\* processQueue_wait without the wait: the outcome is computed at once.
processQueue_wait_noWait ==
    /\ ~fault
    /\ sched.pc = "wait"
    /\ sched' = [sched EXCEPT !.pc = "complete"]
    /\ UNCHANGED <<poolVars, worker, stop, jobVars, histVars>>

\* Line 72, w.sg.Wait(): returns once the counter is zero.
processQueue_wait ==
    /\ ~fault
    /\ sched.pc = "wait"
    /\ sg = 0
    /\ sched' = [sched EXCEPT !.pc = "complete"]
    /\ UNCHANGED <<poolVars, worker, stop, jobVars, histVars>>

\* processQueue_complete without close(j.completed).
processQueue_complete_noClose ==
    /\ ~fault
    /\ sched.pc = "complete"
    /\ sched' = [sched EXCEPT !.pc = "result"]
    /\ UNCHANGED <<poolVars, worker, stop, jobVars, histVars>>

\* Lines 75-76: take the lock and close(j.completed).
processQueue_complete ==
    /\ ~fault
    /\ sched.pc = "complete"
    /\ jobs' = [jobs EXCEPT ![sched.job].completed = TRUE]
    /\ sched' = [sched EXCEPT !.pc = "result"]
    /\ UNCHANGED <<poolVars, worker, stop, waited, fault, histVars>>

\* processQueue_result without `w.err = nil`.
processQueue_result_noReset ==
    /\ ~fault
    /\ sched.pc = "result"
    /\ SendResult(sched.job, err)
    /\ sched' = [pc |-> "recv", job |-> 0, task |-> 0]
    /\ UNCHANGED <<poolVars, worker, stop, waited, fault, ran, skipped, atStop, drainAtStop,
                   logVars>>

\* Lines 77-79: send w.err on j.result, reset w.err and release the lock.
processQueue_result ==
    /\ ~fault
    /\ sched.pc = "result"
    /\ SendResult(sched.job, err)
    /\ err' = Nil
    /\ sched' = [pc |-> "recv", job |-> 0, task |-> 0]
    /\ UNCHANGED <<count, maxJobs, queue, queueClosed, shouldShutdown, triggeredShutdown, sg,
                   ackShutdown, stopWorkers, worker, stop, waited, fault, ran,
                   skipped, atStop, drainAtStop, logVars>>

\* processQueue_ack that sets triggeredShutdown without close(w.ackShutdown).
processQueue_ack_noClose ==
    /\ ~fault
    /\ sched.pc = "ack"
    /\ IF shouldShutdown /\ ~triggeredShutdown
       THEN /\ triggeredShutdown' = TRUE
            /\ UNCHANGED ackShutdown
       ELSE UNCHANGED <<triggeredShutdown, ackShutdown>>
    /\ sched' = [sched EXCEPT !.pc = "exited"]
    /\ UNCHANGED <<count, maxJobs, queue, queueClosed, shouldShutdown, err, sg, stopWorkers,
                   worker, stop, jobVars, histVars>>

\* Lines 83-88: after the loop, close w.ackShutdown once.
processQueue_ack ==
    /\ ~fault
    /\ sched.pc = "ack"
    /\ IF shouldShutdown /\ ~triggeredShutdown
       THEN /\ triggeredShutdown' = TRUE
            /\ ackShutdown' = TRUE
       ELSE UNCHANGED <<triggeredShutdown, ackShutdown>>
    /\ sched' = [sched EXCEPT !.pc = "exited"]
    /\ UNCHANGED <<count, maxJobs, queue, queueClosed, shouldShutdown, err, sg, stopWorkers,
                   worker, stop, jobVars, histVars>>

\* ----------------------------------------------------------- startWorker
\* Lines 95-98, the select's first case: w.stopWorkers is closed.  The worker then
\* blocks in its send on the unbuffered w.stoppedWorkers.
startWorker_stop(w) ==
    /\ ~fault
    /\ worker[w].pc = "select"
    /\ stopWorkers
    /\ worker' = [worker EXCEPT ![w].pc = "stopping"]
    /\ UNCHANGED <<poolVars, sched, stop, jobVars, histVars>>

\* startWorker_check whose skip branch leaves out w.sg.Done().
startWorker_check_noDone(w) ==
    /\ ~fault
    /\ worker[w].pc = "check"
    /\ IF err # Nil
       THEN /\ skipped' = [skipped EXCEPT ![worker[w].job][worker[w].task] = @ + 1]
            /\ worker' = [worker EXCEPT ![w] = [Idle EXCEPT !.pc = "returned"]]
            /\ UNCHANGED sg
       ELSE /\ worker' = [worker EXCEPT ![w].pc = "run"]
            /\ UNCHANGED <<sg, skipped>>
    /\ UNCHANGED <<count, maxJobs, queue, queueClosed, shouldShutdown, triggeredShutdown, err,
                   ackShutdown, stopWorkers, sched, stop, jobVars, ran, outcomes,
                   atStop, drainAtStop, logVars>>

\* Lines 101-107: read w.err under the read lock; when it is set, w.sg.Done() and
\* `return`: the goroutine ends.
startWorker_check(w) ==
    /\ ~fault
    /\ worker[w].pc = "check"
    /\ IF err # Nil
       THEN /\ sg' = sg - 1
            /\ skipped' = [skipped EXCEPT ![worker[w].job][worker[w].task] = @ + 1]
            /\ worker' = [worker EXCEPT ![w] = [Idle EXCEPT !.pc = "returned"]]
       ELSE /\ worker' = [worker EXCEPT ![w].pc = "run"]
            /\ UNCHANGED <<sg, skipped>>
    /\ UNCHANGED <<count, maxJobs, queue, queueClosed, shouldShutdown, triggeredShutdown, err,
                   ackShutdown, stopWorkers, sched, stop, jobVars, ran, outcomes,
                   atStop, drainAtStop, logVars>>

\* startWorker_run without the `if w.err == nil` test: a later error overwrites.
startWorker_run_overwrite(w) ==
    /\ ~fault
    /\ worker[w].pc = "run"
    /\ LET j == worker[w].job
           t == worker[w].task
       IN /\ ran' = [ran EXCEPT ![j][t] = @ + 1]
          /\ err' = IF jobs[j].tasks[t] THEN TaskErr(j, t) ELSE err
    /\ worker' = [worker EXCEPT ![w].pc = "done"]
    /\ UNCHANGED <<count, maxJobs, queueClosed, queue, shouldShutdown, triggeredShutdown,
                   sg, ackShutdown, stopWorkers, sched, stop, jobVars, skipped,
                   outcomes, atStop, drainAtStop, logVars>>

\* Lines 110-116: the closure j() returns; when it returns an error, store it in
\* w.err under the lock if w.err is still nil.
startWorker_run(w) ==
    /\ ~fault
    /\ worker[w].pc = "run"
    /\ LET j == worker[w].job
           t == worker[w].task
       IN /\ ran' = [ran EXCEPT ![j][t] = @ + 1]
          /\ err' = IF jobs[j].tasks[t] /\ err = Nil THEN TaskErr(j, t) ELSE err
    /\ worker' = [worker EXCEPT ![w].pc = "done"]
    /\ UNCHANGED <<count, maxJobs, queue, queueClosed, shouldShutdown, triggeredShutdown, sg,
                   ackShutdown, stopWorkers, sched, stop, jobVars, skipped, outcomes,
                   atStop, drainAtStop, logVars>>

\* Line 117: w.sg.Done(), then back to the select.
startWorker_done(w) ==
    /\ ~fault
    /\ worker[w].pc = "done"
    /\ sg' = sg - 1
    /\ worker' = [worker EXCEPT ![w] = Idle]
    /\ UNCHANGED <<count, maxJobs, queue, queueClosed, shouldShutdown, triggeredShutdown, err,
                   ackShutdown, stopWorkers, sched, stop, jobVars, histVars>>

\* ------------------------------------------------------------------ Stop
\* Lines 124-126: set shouldShutdown under the lock.
Stop_set ==
    /\ ~fault
    /\ stop.pc = "idle"
    /\ shouldShutdown' = TRUE
    /\ atStop' = {queue[i] : i \in 1..Len(queue)}
    /\ drainAtStop' = IF sched.pc \in {"drain", "send", "wait", "complete", "result"}
                      THEN sched.job ELSE 0
    /\ stop' = [stop EXCEPT !.pc = "close"]
    /\ UNCHANGED <<count, maxJobs, queue, queueClosed, triggeredShutdown, err, sg, ackShutdown,
                   stopWorkers, sched, worker, jobVars, ran, skipped, outcomes,
                   logVars>>

\* Line 127: close(w.queue).
Stop_close ==
    /\ ~fault
    /\ stop.pc = "close"
    /\ queueClosed' = TRUE
    /\ stop' = [stop EXCEPT !.pc = "ack"]
    /\ UNCHANGED <<count, maxJobs, queue, shouldShutdown, triggeredShutdown, err, sg,
                   ackShutdown, stopWorkers, sched, worker, jobVars, histVars>>

\* Stop_ack without the receive from w.ackShutdown.
Stop_ack_noWait ==
    /\ ~fault
    /\ stop.pc = "ack"
    /\ stopWorkers' = TRUE
    /\ stop' = [pc |-> "workers", i |-> 0]
    /\ UNCHANGED <<count, maxJobs, queue, queueClosed, shouldShutdown, triggeredShutdown, err,
                   sg, ackShutdown, sched, worker, jobVars, histVars>>

\* Lines 130-131: <-w.ackShutdown returns once it is closed; close(w.stopWorkers).
Stop_ack ==
    /\ ~fault
    /\ stop.pc = "ack"
    /\ ackShutdown
    /\ stopWorkers' = TRUE
    /\ stop' = [pc |-> "workers", i |-> 0]
    /\ UNCHANGED <<count, maxJobs, queue, queueClosed, shouldShutdown, triggeredShutdown, err,
                   sg, ackShutdown, sched, worker, jobVars, histVars>>

\* StopLoopOver with the loop one iteration short.
StopLoopOver_oneShort(i) == i >= count - 1

\* Whether the loop of lines 134-136 has ended after i receives.
StopLoopOver(i) == i >= count

\* Lines 134-136 with line 97: `<-w.stoppedWorkers` meets worker w's send (the
\* channel is unbuffered); the worker returns.  Stop returns after count receives.
Stop_recv(w) ==
    /\ ~fault
    /\ stop.pc = "workers"
    /\ worker[w].pc = "stopping"
    /\ worker' = [worker EXCEPT ![w].pc = "stopped"]
    /\ stop' = [pc |-> IF StopLoopOver(stop.i + 1) THEN "returned" ELSE "workers",
                i |-> stop.i + 1]
    /\ UNCHANGED <<poolVars, sched, jobVars, histVars>>

\* ------------------------------------------------------------------ Next
\* Every action is guarded by ~fault: a panic ends the process.
\* In Next the callers pass no callback to Done (Done(nil)); NextCallback below adds
\* the callers that pass one.  The callback goroutine only reads j.completed, so
\* nothing else in the pool depends on it.
Next ==
    \/ \E j \in Jobs : NewJob_check(j)
    \/ \E j \in Jobs : NewJob_send(j)
    \/ \E j \in Jobs, f \in BOOLEAN : Go(j, f)
    \/ \E j \in Jobs : Done(j, FALSE)
    \/ \E j \in Jobs : Wait(j)
    \/ processQueue_recv
    \/ processQueue_check
    \/ processQueue_take
    \/ \E w \in WorkerIds : processQueue_send(w)
    \/ processQueue_wait
    \/ processQueue_complete
    \/ processQueue_result
    \/ processQueue_ack
    \/ \E w \in WorkerIds : startWorker_stop(w)
    \/ \E w \in WorkerIds : startWorker_check(w)
    \/ \E w \in WorkerIds : startWorker_run(w)
    \/ \E w \in WorkerIds : startWorker_done(w)
    \/ Stop_set
    \/ Stop_close
    \/ Stop_ack
    \/ \E w \in WorkerIds : Stop_recv(w)

Spec == Init /\ [][Next]_vars

\* The pool with callers that may pass a callback to Done, on a pool of one worker
\* and an admission queue of capacity one.
InitCallback == Init /\ count = 1 /\ maxJobs = 1

NextCallback ==
    \/ Next
    \/ \E j \in Jobs : Done(j, TRUE)
    \/ \E j \in Jobs : Done_callback(j)

SpecCallback == InitCallback /\ [][NextCallback]_vars

\* ------------------------------------------------------------ properties
\* A step of the scheduler goroutine or of a worker goroutine.
PoolStep ==
    \/ processQueue_recv
    \/ processQueue_check
    \/ processQueue_take
    \/ \E w \in WorkerIds : processQueue_send(w)
    \/ processQueue_wait
    \/ processQueue_complete
    \/ processQueue_result
    \/ processQueue_ack
    \/ \E w \in WorkerIds : startWorker_stop(w)
    \/ \E w \in WorkerIds : startWorker_check(w)
    \/ \E w \in WorkerIds : startWorker_run(w)
    \/ \E w \in WorkerIds : startWorker_done(w)

\* A step of the Stop call.
StopStep ==
    \/ Stop_set
    \/ Stop_close
    \/ Stop_ack
    \/ \E w \in WorkerIds : Stop_recv(w)

Workers == 1..count
Pushed(j) == 1..Len(jobs[j].tasks)
\* NewJob returned the Job to its caller.
Admitted(j) == jobs[j].call = "returned"
\* The caller has called Done on every Job it holds.
AllFinalized == \A j \in Jobs : Admitted(j) => jobs[j].closed
\* A worker executed a task of job j that returned an error.
FailedIn(j) == \E t \in Pushed(j) : jobs[j].tasks[t] /\ ran[j][t] > 0
\* No value has been sent on j.result yet.
Unresolved(j) == Admitted(j) /\ outcomes[j] = <<>>
\* The worker goroutine has ended.
Ended(w) == worker[w].pc \in {"returned", "stopped"}

\* C1: a worker goroutine ends (or leaves its receive loop) only after the stop
\* signal: whenever a worker is past its loop, stopWorkers is closed.
C1_WorkerEndsOnlyOnStop ==
    \A w \in Workers : worker[w].pc \in {"returned", "stopping", "stopped"} => stopWorkers

\* C2: task failures do not degrade the pool.  Stated as what a finite run refutes:
\* while Stop has not been called, if some job has completed with a task's error
\* and a finalized job B is still unresolved, with every job the callers hold
\* finalized, then the scheduler or a worker can take a step (B is not stuck).
C2_LaterJobServed ==
    \A b \in Jobs :
        ( /\ ~shouldShutdown /\ ~fault
          /\ Unresolved(b) /\ jobs[b].closed
          /\ AllFinalized
          /\ \E a \in Jobs \ {b} : outcomes[a] # <<>> /\ IsTaskErr(outcomes[a][1]) )
        => ENABLED PoolStep

\* C3 as stated: at most one value is ever sent on a job's outcome channel, and
\* whenever one has been sent the job's completed channel is closed, on every path.
C3_OutcomeOnceAfterCompleted ==
    \A j \in Jobs :
        /\ Len(outcomes[j]) <= 1
        /\ outcomes[j] # <<>> => jobs[j].completed

\* C3 as amended: at most one value is ever sent on a job's outcome channel; a value
\* other than ErrShutdown is sent only after completed was closed, and a job resolved
\* with ErrShutdown has its completed channel still open.
C3_OutcomeOnceCompletedUnlessShutdown ==
    \A j \in Jobs :
        /\ Len(outcomes[j]) <= 1
        /\ outcomes[j] # <<>> => (jobs[j].completed <=> outcomes[j][1] # ErrShutdown)
        /\ jobs[j].completed /\ outcomes[j] = <<>> => (sched.pc = "result" /\ sched.job = j)
        /\ waited[j] # <<>> => (waited[j] = outcomes[j] /\ jobs[j].result = <<>>)

\* One job was resolved with ErrShutdown and another by the drain path.
C3_Witness ==
    \E j, k \in Jobs :
        /\ outcomes[j] = <<ErrShutdown>> /\ ~jobs[j].completed
        /\ outcomes[k] # <<>> /\ outcomes[k][1] # ErrShutdown /\ jobs[k].completed

\* C4: no task is ever executed twice; a job whose tasks all succeed and that was not
\* rejected by shutdown gets nil, with each of its tasks executed exactly once and
\* none skipped when the outcome is sent; Wait returns that outcome; and while every
\* pushed task succeeds and Stop has not been called, no finalized job is stuck.
C4_AllSucceed ==
    /\ \A j \in Jobs : \A t \in TaskIds : ran[j][t] <= 1
    /\ \A j \in Jobs :
        ( /\ outcomes[j] # <<>>
          /\ jobs[j].completed \/ ~shouldShutdown
          /\ \A t \in Pushed(j) : ~jobs[j].tasks[t] )
        => /\ outcomes[j] = <<Nil>>
           /\ \A t \in Pushed(j) : ran[j][t] = 1 /\ skipped[j][t] = 0
           /\ waited[j] # <<>> => waited[j] = <<Nil>>
    /\ ( /\ \A j \in Jobs : \A t \in Pushed(j) : ~jobs[j].tasks[t]
         /\ ~shouldShutdown /\ ~fault
         /\ AllFinalized
         /\ \E j \in Jobs : Unresolved(j) )
       => ENABLED PoolStep

\* Two workers, every job with two or more tasks, all succeeding, and every Wait
\* has returned nil.
C4_Witness ==
    /\ count = 2
    /\ \A j \in Jobs :
        /\ Len(jobs[j].tasks) >= 2
        /\ \A t \in Pushed(j) : ~jobs[j].tasks[t] /\ ran[j][t] = 1
        /\ waited[j] = <<Nil>>

\* C5: a finalized job in which an executed task failed, on a pool not shut down,
\* is never stuck (the scheduler or a worker can step until its outcome is sent),
\* and its outcome is the error of one of its own executed failing tasks.
C5_FailedJobResolves ==
    \A j \in Jobs :
        /\ ( /\ ~shouldShutdown /\ ~fault
             /\ Unresolved(j) /\ jobs[j].closed /\ FailedIn(j) )
           => ENABLED PoolStep
        /\ (outcomes[j] # <<>> /\ FailedIn(j))
           => /\ IsTaskErr(outcomes[j][1])
              /\ outcomes[j][1][2] = j
              /\ jobs[j].tasks[outcomes[j][1][3]]
              /\ ran[j][outcomes[j][1][3]] > 0

\* C6: w.err is nil whenever the scheduler is between jobs or begins dispatching a
\* job; while set it is an error of the job in drain; the outcome of a job is never
\* the error of another job's task, and a drained job without an executed failing
\* task gets nil.
C6_JobIsolation ==
    /\ sched.pc \in {"recv", "check", "ack", "exited"} => err = Nil
    /\ (sched.pc = "drain" /\ jobs[sched.job].taken = 0) => err = Nil
    /\ err # Nil => (IsTaskErr(err) /\ err[2] = sched.job)
    /\ \A j \in Jobs :
        /\ \A i \in 1..Len(outcomes[j]) :
              IsTaskErr(outcomes[j][i]) => outcomes[j][i][2] = j
        /\ (jobs[j].completed /\ outcomes[j] # <<>> /\ ~FailedIn(j))
           => outcomes[j] = <<Nil>>

\* A job failed and a later job on the same pool, with executed tasks, got nil.
C6_Witness ==
    \E a, b \in Jobs :
        /\ a < b
        /\ outcomes[a] # <<>> /\ IsTaskErr(outcomes[a][1])
        /\ outcomes[b] = <<Nil>>
        /\ \E t \in Pushed(b) : ran[b][t] = 1

\* C7: a job that was in the admission queue when Stop set the shutdown flag gets no
\* outcome but ErrShutdown, none of its tasks is ever taken from its channel,
\* forwarded, executed or skipped, and once the scheduler has left its loop its
\* outcome has been sent.
C7_QueuedAtStopRejected ==
    \A j \in atStop :
        /\ outcomes[j] \in {<<>>, <<ErrShutdown>>}
        /\ jobs[j].taken = 0
        /\ \A t \in TaskIds : ran[j][t] = 0 /\ skipped[j][t] = 0
        /\ \A w \in Workers : worker[w].job # j
        /\ sched.job = j => sched.pc = "check"
        /\ sched.pc \in {"ack", "exited"} => outcomes[j] = <<ErrShutdown>>

\* A job holding a task was in the queue at Stop and was resolved with ErrShutdown.
C7_Witness ==
    \E j \in atStop : Len(jobs[j].tasks) > 0 /\ outcomes[j] = <<ErrShutdown>>

\* C8: Stop terminates.  Stated as what a finite run refutes: once Stop has been
\* called and has not returned, with every job the callers hold finalized, the
\* scheduler, a worker or Stop itself can take a step.
C8_StopNotStuck ==
    ( /\ stop.pc \notin {"idle", "returned"} /\ ~fault
      /\ AllFinalized )
    => ENABLED (PoolStep \/ StopStep)

\* C9: once Stop has returned, every worker goroutine has ended and the scheduler
\* has left its loop and acknowledged.
C9_StopReturnsAfterWorkers ==
    stop.pc = "returned" =>
        /\ \A w \in Workers : Ended(w)
        /\ sched.pc = "exited"
        /\ ackShutdown /\ stopWorkers

\* Stop has returned on a pool of two workers that had drained a job.
C9_Witness ==
    /\ stop.pc = "returned"
    /\ count = 2
    /\ \E j \in Jobs : jobs[j].completed

\* The part of the state NewJob can reach besides its own call's position.
InQueue(j) == \E i \in 1..Len(queue) : queue[i] = j

\* C10: a NewJob call that reads the shutdown flag as set (as does every call that
\* starts after Stop has returned) returns ErrShutdown and changes nothing else; a
\* rejected call has no Job, and nothing of it is ever in the admission queue.
C10_NewJobFailsFast ==
    /\ [][\A j \in Jobs :
            (jobs[j].call = "none" /\ jobs'[j].call # "none"
                /\ (shouldShutdown \/ stop.pc = "returned"))
            => /\ jobs'[j] = [NoJob EXCEPT !.call = "rejected"]
               /\ UNCHANGED <<poolVars, procVars, waited, fault, histVars>>
               /\ \A k \in Jobs \ {j} : jobs'[k] = jobs[k]]_vars
    /\ [](\A j \in Jobs :
            jobs[j].call = "rejected"
            => /\ jobs[j] = [NoJob EXCEPT !.call = "rejected"]
               /\ ~InQueue(j) /\ sched.job # j /\ outcomes[j] = <<>>)

\* A NewJob call made after Stop returned was rejected.
C10_Witness ==
    /\ stop.pc = "returned"
    /\ \E j \in Jobs : jobs[j].call = "rejected" /\ (j > 1 => jobs[j - 1].completed)

\* C11: the race between NewJob and Stop never faults: no NewJob call panics by
\* sending on the admission queue after Stop closed it, whether it was between its
\* check and its send or blocked on a full queue.
C11_RaceNeverFaults ==
    /\ ~fault
    /\ \A j \in Jobs : jobs[j].call # "panicked"

\* The task closures being executed: the workers inside their call of j().
Executing == {w \in WorkerIds : worker[w].pc = "run"}
\* The workers that hold a task they received and have not yet counted as done.
Holding == {w \in WorkerIds : worker[w].pc \in {"check", "run", "done"}}

\* C12: at most count task closures are executing at any time, and no goroutine
\* beyond the count workers started by New ever holds a task.
C12_AtMostCountExecuting ==
    /\ Cardinality(Executing) <= count
    /\ Cardinality(Holding) <= count
    /\ \A w \in WorkerIds : w > count => worker[w].pc = "absent"

\* Two tasks of one job are executing at once on a pool of two workers, with a
\* further task of the job buffered behind them.
C12_Witness ==
    /\ count = 2
    /\ Cardinality(Executing) = 2
    /\ \E j \in Jobs : Buffered(j) > 0 /\ \A w \in Executing : worker[w].job = j

\* The scheduler is in the drain of sched.job: between its shutdown check and the
\* send of the job's outcome.
InDrain == sched.pc \in {"drain", "send", "wait", "complete", "result"}

\* C13: one job is in drain at a time and the drain order is the enqueue order:
\* every task a worker holds, and every counted task, belongs to the one job the
\* scheduler is draining; every job dequeued before the latest one already has its
\* outcome; a job not yet dequeued has had no task taken; and the jobs dequeued so
\* far are, in order, the first jobs enqueued, the queue holding the rest.
C13_SerializedFifoDrain ==
    /\ \A w \in Holding : InDrain /\ worker[w].job = sched.job
    /\ sg > 0 => sched.pc \in {"drain", "send", "wait"}
    /\ \A i \in 1..Len(dequeued) :
          IF i < Len(dequeued)
          THEN outcomes[dequeued[i]] # <<>>
          ELSE (outcomes[dequeued[i]] = <<>>) <=> (sched.job = dequeued[i])
    /\ \A j \in Jobs :
          (\A i \in 1..Len(dequeued) : dequeued[i] # j)
          => /\ jobs[j].taken = 0 /\ outcomes[j] = <<>> /\ sched.job # j
             /\ \A t \in TaskIds : ran[j][t] = 0 /\ skipped[j][t] = 0
    /\ Len(dequeued) + Len(queue) = Len(enqueued)
    /\ \A i \in 1..Len(enqueued) :
          enqueued[i] = IF i <= Len(dequeued) THEN dequeued[i]
                        ELSE queue[i - Len(dequeued)]

\* Two jobs were enqueued against the order of their NewJob calls on a queue of
\* capacity two, and both were drained, with tasks executed, in the enqueue order.
C13_Witness ==
    /\ maxJobs = 2
    /\ enqueued = <<2, 1>>
    /\ dequeued = <<2, 1>>
    /\ \A j \in {1, 2} : jobs[j].completed /\ outcomes[j] # <<>> /\ ran[j][1] = 1

\* The tasks of job j that a worker has received from w.tasks.
Forwarded(j) ==
    jobs[j].taken - (IF sched.pc = "send" /\ sched.job = j THEN 1 ELSE 0)
\* The NewJob calls that have returned a Job.
Returned == {j \in Jobs : Admitted(j)}

\* C14 as stated: the queue holds at most maxJobs jobs and j.tasks at most
\* taskBacklog tasks; NewJob calls return only as the scheduler dequeues (at most
\* maxJobs more calls have returned than jobs were dequeued), and Go calls return
\* only as the scheduler forwards tasks to workers (at most taskBacklog more
\* calls have returned than tasks of the job were forwarded).
C14_BackpressureUntilForwarded ==
    /\ Len(queue) <= maxJobs
    /\ Cardinality(Returned) <= maxJobs + Len(dequeued)
    /\ \A j \in Jobs :
        /\ Buffered(j) <= TaskBacklog
        /\ Len(jobs[j].tasks) <= TaskBacklog + Forwarded(j)

\* C14 as amended: the same, with Go calls returning as the scheduler receives
\* tasks from j.tasks (at most taskBacklog more calls have returned than tasks of
\* the job were taken by the scheduler), forwarded to a worker or not.
C14_BackpressureUntilTaken ==
    /\ Len(queue) <= maxJobs
    /\ Cardinality(Returned) <= maxJobs + Len(dequeued)
    /\ \A j \in Jobs :
        /\ Buffered(j) <= TaskBacklog
        /\ Len(jobs[j].tasks) <= TaskBacklog + jobs[j].taken

\* A second NewJob call returned only after a dequeue on a queue of capacity one,
\* and a Go call returned for a full backlog after the scheduler took a task.
C14_Witness ==
    /\ maxJobs = 1 /\ Len(dequeued) >= 1
    /\ Cardinality(Returned) = maxJobs + Len(dequeued)
    /\ \E j \in Jobs :
        /\ jobs[j].taken >= 1
        /\ Len(jobs[j].tasks) = TaskBacklog + jobs[j].taken

\* C15: w.err is written only when it is nil, by a worker whose task returned an
\* error; once set it keeps its value until the scheduler sends it as the outcome
\* of the job in drain and resets it; so an outcome is the first error stored, and
\* a later error of the same job is in no job's outcome.
C15_FirstErrorWins ==
    /\ [][ /\ (err = Nil /\ err' # Nil)
              => \E w \in WorkerIds :
                    /\ worker[w].pc = "run"
                    /\ jobs[worker[w].job].tasks[worker[w].task]
                    /\ err' = TaskErr(worker[w].job, worker[w].task)
                    /\ worker'[w].pc = "done"
           /\ err # Nil
              => \/ err' = err
                 \/ /\ err' = Nil
                    /\ sched.pc = "result"
                    /\ outcomes'[sched.job] = Append(outcomes[sched.job], err) ]_vars
    /\ [](\A j \in Jobs :
            /\ Len(outcomes[j]) <= 1
            /\ \A i \in 1..Len(outcomes[j]) :
                  IsTaskErr(outcomes[j][i])
                  => /\ outcomes[j][i][2] = j
                     /\ jobs[j].tasks[outcomes[j][i][3]]
                     /\ ran[j][outcomes[j][i][3]] = 1)

\* Two tasks of one job both ran and failed, and the job's outcome is the error of
\* the one pushed later: it reached w.err first.
C15_Witness ==
    \E j \in Jobs : \E t1, t2 \in Pushed(j) :
        /\ t1 < t2
        /\ jobs[j].tasks[t1] /\ jobs[j].tasks[t2]
        /\ ran[j][t1] = 1 /\ ran[j][t2] = 1
        /\ outcomes[j] = <<TaskErr(j, t2)>>
        /\ waited[j] = <<TaskErr(j, t2)>>

\* C16: when the scheduler closes j.completed and reads w.err (lines 76-77), the
\* counter sg is zero, no worker holds a task, the scheduler holds none, the job's
\* task channel is closed and empty, and every task pushed to the job has been
\* executed or skipped exactly once; the same accounting holds for every job whose
\* outcome is not ErrShutdown.
C16_OutcomeAfterAllTasks ==
    /\ sched.pc \in {"complete", "result"}
       => /\ sg = 0
          /\ Holding = {}
          /\ sched.task = 0
          /\ jobs[sched.job].closed
          /\ Buffered(sched.job) = 0
          /\ \A t \in Pushed(sched.job) :
                ran[sched.job][t] + skipped[sched.job][t] = 1
    /\ \A j \in Jobs :
          (outcomes[j] # <<>> /\ outcomes[j] # <<ErrShutdown>>)
          => /\ jobs[j].completed
             /\ \A t \in Pushed(j) : ran[j][t] + skipped[j][t] = 1

\* The scheduler is about to close j.completed for a job of which one task was
\* executed and failed and a later one was skipped.
C16_Witness ==
    /\ sched.pc = "complete"
    /\ \E t1, t2 \in Pushed(sched.job) :
          /\ ran[sched.job][t1] = 1 /\ jobs[sched.job].tasks[t1]
          /\ skipped[sched.job][t2] = 1
    /\ Len(jobs[sched.job].tasks) = MaxTasks

\* C17: the counter sg is never negative and equals the number of tasks counted
\* by the scheduler and not yet counted as done by a worker; it goes down one at a
\* time, each time by a worker giving up the task it holds, after executing it or
\* on skipping it; no task is executed or skipped more than once; a task is
\* skipped only by a worker that reads a non-nil w.err at its check, and is begun
\* only when w.err is nil there; a worker executing a task stays on it, whatever
\* happens to w.err, until its closure has returned and been recorded (in a
\* process that has not panicked).
C17_ShortCircuitAccounting ==
    /\ [](/\ sg >= 0
          /\ sg = Cardinality(Holding) + (IF sched.pc = "send" THEN 1 ELSE 0)
          /\ \A j \in Jobs : \A t \in Pushed(j) : ran[j][t] + skipped[j][t] <= 1
          /\ ~fault => \A w \in Executing : ENABLED startWorker_run(w))
    /\ [][ /\ sg' < sg
              => /\ sg' = sg - 1
                 /\ \E w \in Holding :
                       /\ worker[w].pc \in {"check", "done"}
                       /\ worker'[w].pc \notin {"check", "run", "done"}
                       /\ ran'[worker[w].job][worker[w].task]
                            + skipped'[worker[w].job][worker[w].task] = 1
           /\ \A w \in WorkerIds :
                 /\ (worker[w].pc = "check" /\ worker'[w].pc # "check")
                    => IF err # Nil
                       THEN /\ skipped'[worker[w].job][worker[w].task] = 1
                            /\ ran' = ran
                            /\ sg' = sg - 1
                       ELSE /\ worker'[w].pc = "run"
                            /\ skipped' = skipped
                 /\ (worker[w].pc = "run" /\ worker'[w].pc # "run")
                    => /\ worker'[w].pc = "done"
                       /\ ran'[worker[w].job][worker[w].task] = 1
                 /\ (worker[w].pc = "done" /\ worker'[w].pc # "done")
                    => sg' = sg - 1
           /\ skipped' # skipped => err # Nil ]_vars

\* A task is still executing after a sibling has failed and a later task of the
\* job has been skipped; the executing task is the only one outstanding.
C17_Witness ==
    \E w \in Executing :
        /\ IsTaskErr(err)
        /\ err[2] = worker[w].job
        /\ \E t \in Pushed(worker[w].job) : skipped[worker[w].job][t] = 1
        /\ sg = 1

\* C18: a job that was in drain when Stop set the flag never gets ErrShutdown: its
\* outcome, once sent, follows the closing of j.completed and the execution or
\* skipping of every task pushed to it, and a nil outcome means every one of them
\* was executed; stopWorkers is closed only after the scheduler has left its loop
\* and closed ackShutdown, with no task counted or held, so a worker that takes
\* the stop case of its select leaves no task outstanding.
C18_StopDoesNotPreempt ==
    /\ drainAtStop # 0
       => /\ shouldShutdown
          /\ drainAtStop \in {dequeued[i] : i \in 1..Len(dequeued)}
          /\ outcomes[drainAtStop] # <<ErrShutdown>>
          /\ outcomes[drainAtStop] # <<>>
             => /\ jobs[drainAtStop].completed
                /\ \A t \in Pushed(drainAtStop) :
                      ran[drainAtStop][t] + skipped[drainAtStop][t] = 1
          /\ outcomes[drainAtStop] = <<Nil>>
             => \A t \in Pushed(drainAtStop) : ran[drainAtStop][t] = 1
    /\ stopWorkers
       => /\ sched.pc = "exited"
          /\ ackShutdown
          /\ sg = 0
          /\ Holding = {}
    /\ \A w \in WorkerIds :
          worker[w].pc \in {"stopping", "stopped"}
          => /\ stopWorkers
             /\ sg = 0
             /\ Holding = {}

\* Stop set the flag while a job was in drain with tasks still to be pushed; the
\* job got the outcome nil with MaxTasks tasks executed, a job behind it in the
\* queue was rejected, and the workers have since been told to stop.
C18_Witness ==
    /\ drainAtStop # 0
    /\ outcomes[drainAtStop] = <<Nil>>
    /\ Len(jobs[drainAtStop].tasks) = MaxTasks
    /\ \E j \in atStop : outcomes[j] = <<ErrShutdown>>
    /\ stopWorkers
    /\ \E w \in Workers : worker[w].pc = "stopping"

\* C19: shouldShutdown and triggeredShutdown never go back to false; ackShutdown
\* is closed by one step only, the scheduler's after its loop over the closed and
\* empty queue, taken with shouldShutdown set and triggeredShutdown unset and
\* setting the latter, so never a second time; the scheduler never re-enters its
\* loop afterwards; it can always take that step once its loop has ended, and
\* has closed ackShutdown whenever it has exited.
C19_ShutdownAckOnce ==
    /\ [](/\ ackShutdown <=> triggeredShutdown
          /\ ackShutdown => shouldShutdown /\ queueClosed /\ queue = <<>>
          /\ queueClosed => shouldShutdown
          /\ sched.pc = "ack" => queueClosed /\ queue = <<>> /\ ~ackShutdown
          /\ (sched.pc = "ack" /\ ~fault) => ENABLED processQueue_ack
          /\ sched.pc = "exited" => ackShutdown)
    /\ [][ /\ shouldShutdown => shouldShutdown'
           /\ triggeredShutdown => triggeredShutdown'
           /\ ackShutdown => ackShutdown'
           /\ ackShutdown' # ackShutdown
              => /\ sched.pc = "ack"
                 /\ sched'.pc = "exited"
                 /\ shouldShutdown
                 /\ ~triggeredShutdown
                 /\ triggeredShutdown'
           /\ sched.pc = "exited" => sched' = sched ]_vars

\* The scheduler has closed ackShutdown after rejecting a queued job, and Stop has
\* not yet received from it.
C19_Witness ==
    /\ ackShutdown
    /\ triggeredShutdown
    /\ sched.pc = "exited"
    /\ stop.pc = "ack"
    /\ \E j \in Jobs : outcomes[j] = <<ErrShutdown>>
    /\ \E j \in Jobs : outcomes[j] = <<Nil>> /\ Len(jobs[j].tasks) > 0

\* C20: a job whose outcome is ErrShutdown never has j.completed closed, so the
\* goroutine Done started for its callback cannot proceed and the callback has not
\* been invoked, in any reachable state; an outcome once sent never changes and
\* j.completed is closed only by the scheduler at the end of that job's drain; a
\* callback is invoked at most once, and only for a job that was dequeued, whose
\* j.completed is closed and whose every task was executed or skipped.
C20_CallbackOnlyAfterDrain ==
    /\ [](\A j \in Jobs :
            /\ outcomes[j] = <<ErrShutdown>>
               => /\ ~jobs[j].completed
                  /\ jobs[j].callback # "called"
                  /\ invoked[j] = 0
                  /\ ~ENABLED Done_callback(j)
            /\ invoked[j] <= 1
            /\ invoked[j] = 1
               => /\ jobs[j].callback = "called"
                  /\ jobs[j].completed
                  /\ jobs[j].closed
                  /\ j \in {dequeued[i] : i \in 1..Len(dequeued)}
                  /\ outcomes[j] # <<ErrShutdown>>
                  /\ \A t \in Pushed(j) : ran[j][t] + skipped[j][t] = 1)
    /\ [][\A j \in Jobs :
            /\ outcomes[j] # <<>> => outcomes'[j] = outcomes[j]
            /\ (jobs'[j].completed /\ ~jobs[j].completed)
               => /\ sched.pc = "complete"
                  /\ sched.job = j
                  /\ outcomes[j] = <<>>
            /\ jobs[j].completed => jobs'[j].completed
            /\ invoked'[j] # invoked[j]
               => /\ invoked'[j] = invoked[j] + 1
                  /\ jobs[j].completed
                  /\ jobs[j].callback = "waiting" ]_vars

\* One job was drained and its callback invoked; another, given a callback too,
\* was resolved with ErrShutdown and its callback goroutine is still waiting
\* after Stop has returned.
C20_Witness ==
    \E j, k \in Jobs :
        /\ invoked[j] = 1
        /\ Len(jobs[j].tasks) > 0
        /\ outcomes[k] = <<ErrShutdown>>
        /\ waited[k] = <<ErrShutdown>>
        /\ jobs[k].closed
        /\ jobs[k].callback = "waiting"
        /\ stop.pc = "returned"

====
